---- MODULE Spec2Model ----
(***************************************************************************)
(* Recurring-transaction rollover of the Gemini Expense Manager            *)
(* (src/App.tsx, recurring rollover effect) and the persistence calls it   *)
(* makes (src/unnamed/part_001, the firebase service).                     *)
(*                                                                         *)
(* Dates.  The program keeps dates as ISO strings "YYYY-MM-DD" and steps   *)
(* them through the JavaScript Date object: new Date(str) reads the string *)
(* as midnight UTC, getDate/setDate/getMonth/setMonth/getFullYear/         *)
(* setFullYear work on the LOCAL calendar fields of the runtime's time     *)
(* zone, and toISOString().split('T')[0] writes the UTC calendar date.     *)
(* A date string is modelled as a record [y, m, d]; an instant as a number *)
(* of hours since 1970-01-01T00:00Z; the runtime's zone is the variable tz.*)
(***************************************************************************)
EXTENDS Integers, Sequences, FiniteSets, TLC

\* Body applied to the value of an expression.  TLC hands an operator its
\* arguments unevaluated and evaluates them at every use; Bind evaluates
\* the expression once.
Bind(value, Body(_)) == CHOOSE r \in {Body(x) : x \in {value}} : TRUE

(***************************************************************************)
(* Calendar arithmetic of the Date object (proleptic Gregorian calendar).  *)
(***************************************************************************)

\* Day number (days since 1970-01-01) of the civil date y-m-d, m in 1..12.
\* d may lie outside the month: the Date object carries the excess over,
\* so day 31 of a 30-day month is day 1 of the next (MakeDay of ECMA-262).
DaysFromCivil(y, m, d) ==
  LET yy  == IF m <= 2 THEN y - 1 ELSE y
      era == yy \div 400
      yoe == yy - era * 400
      mp  == (m + 9) % 12
      doy == (153 * mp + 2) \div 5 + d - 1
      doe == yoe * 365 + yoe \div 4 - yoe \div 100 + doy
  IN  era * 146097 + doe - 719468

\* Civil date of a day number.
CivilFromDays(n) ==
  Bind(n + 719468, LAMBDA z :
  Bind(z \div 146097, LAMBDA era :
  Bind(z - era * 146097, LAMBDA doe :
  Bind((doe - doe \div 1460 + doe \div 36524 - doe \div 146096) \div 365,
       LAMBDA yoe :
  Bind(doe - (365 * yoe + yoe \div 4 - yoe \div 100), LAMBDA doy :
  Bind((5 * doy + 2) \div 153, LAMBDA mp :
  Bind(IF mp < 10 THEN mp + 3 ELSE mp - 9, LAMBDA mm :
    [y |-> IF mm <= 2 THEN yoe + era * 400 + 1 ELSE yoe + era * 400,
     m |-> mm,
     d |-> doy - (153 * mp + 2) \div 5 + 1])))))))

\* Months may overflow too: setMonth(12) is January of the next year.
\* mon0 is the 0-based month number the Date methods use.
MakeDay(y, mon0, d) ==
  DaysFromCivil(y + mon0 \div 12, (mon0 % 12) + 1, 1) + d - 1

Weekday(n) == (n + 4) % 7          \* 0 = Sunday; 1970-01-01 was a Thursday

\* Last Sunday of March or October (both have 31 days) of year y.
LastSunday(y, m) ==
  LET last == DaysFromCivil(y, m, 31) IN last - Weekday(last)

(***************************************************************************)
(* Time zones of the runtime.  std is the standard offset from UTC in      *)
(* hours; a zone with dst = TRUE observes summer time by the European      *)
(* rule (from 01:00 UTC on the last Sunday of March to 01:00 UTC on the    *)
(* last Sunday of October the offset is std + 1).                          *)
(***************************************************************************)
UTC    == [name |-> "UTC",            std |-> 0,  dst |-> FALSE]
Bogota == [name |-> "America/Bogota", std |-> -5, dst |-> FALSE]
Berlin == [name |-> "Europe/Berlin",  std |-> 1,  dst |-> TRUE]

Zones == {UTC, Bogota, Berlin}

InDST(t) ==
  Bind(CivilFromDays(t \div 24).y, LAMBDA y :
    /\ t >= LastSunday(y, 3) * 24 + 1
    /\ t <  LastSunday(y, 10) * 24 + 1)

\* Offset of local time from UTC at the instant t.
LocalOffset(z, t) == IF z.dst /\ InDST(t) THEN z.std + 1 ELSE z.std

\* LocalTime(t) of ECMA-262: the local calendar fields of the instant t.
LocalFields(z, t) ==
  Bind(t + LocalOffset(z, t), LAMBDA lt :
  Bind(CivilFromDays(lt \div 24), LAMBDA c :
    [y |-> c.y, mon0 |-> c.m - 1, d |-> c.d, h |-> lt % 24]))

\* UTC(t) of ECMA-262: the instant of a local time; a local time that a
\* clock change skips or repeats is read with the offset before the change.
FromLocal(z, lt) ==
  IF z.dst /\ InDST(lt - z.std - 1) THEN lt - z.std - 1 ELSE lt - z.std

\* The instant with local fields (y, mon0, d) and the local hour h.
SetFields(z, y, mon0, d, h) ==
  Bind(MakeDay(y, mon0, d) * 24 + h, LAMBDA lt : FromLocal(z, lt))

\* new Date("YYYY-MM-DD"): a date-only string is midnight UTC.
DateParse(s) == DaysFromCivil(s.y, s.m, s.d) * 24

\* date.toISOString().split('T')[0]: the UTC calendar date.
ToISODate(t) == Bind(t \div 24, LAMBDA n : CivilFromDays(n))

\* a <= b, a < b on "YYYY-MM-DD" strings: the comparison is by characters,
\* i.e. by year, then month, then day.
StrLeq(a, b) ==
  \/ a.y < b.y
  \/ a.y = b.y /\ a.m < b.m
  \/ a.y = b.y /\ a.m = b.m /\ a.d <= b.d

StrLt(a, b) == StrLeq(a, b) /\ a # b

(***************************************************************************)
(* calculateNextDate of the rollover effect.                               *)
(***************************************************************************)
Frequencies == {"DAILY", "WEEKLY", "MONTHLY", "YEARLY", "ONCE"}

calculateNextDate(z, dateStr, freq) ==
  Bind(DateParse(dateStr), LAMBDA date :
  Bind(LocalFields(z, date), LAMBDA f :
    CASE freq = "DAILY"   -> ToISODate(SetFields(z, f.y, f.mon0, f.d + 1, f.h))
      [] freq = "WEEKLY"  -> ToISODate(SetFields(z, f.y, f.mon0, f.d + 7, f.h))
      [] freq = "MONTHLY" -> ToISODate(SetFields(z, f.y, f.mon0 + 1, f.d, f.h))
      [] freq = "YEARLY"  -> ToISODate(SetFields(z, f.y + 1, f.mon0, f.d, f.h))
      [] OTHER            -> dateStr))

(***************************************************************************)
(* State.                                                                  *)
(*   tz                 time zone of the runtime (fixed for a session)     *)
(*   today              new Date().toISOString().split('T')[0]             *)
(*   recurringExpenses  the rule set (React state, fed by the rule store)  *)
(*   expenses           the transaction store, in order of creation        *)
(*   inputRules         the rule set the last rollover run started from    *)
(*   loopedRules        the objects of that rule set when the run's loop   *)
(*                      was done                                           *)
(*   newExpensesToAdd, updatedRules, changedRules                          *)
(*                      what the last rollover run produced                *)
(*   calls, ticks       number of rollover runs since the clock last       *)
(*                      moved, and number of clock moves                   *)
(*   hour               UTC hour of the day of the clock: new Date() is    *)
(*                      the instant today at hour o'clock UTC (rollover    *)
(*                      reads only the date)                               *)
(*   forecast           the value of the dashboard's forecast memo         *)
(***************************************************************************)
VARIABLES tz, today, recurringExpenses, expenses, inputRules, loopedRules,
          newExpensesToAdd, updatedRules, changedRules, calls, ticks,
          hour, forecast,
          ruleStore, expenseStore, session, outbox, uuids, entered, removed

\* The state of the user's store and of the pages that are open on it:
\* ruleStore and expenseStore are the two collections at the server,
\* session[s] is page s (the service's db and userId, the component's user
\* and recurringExpenses), outbox[s] the writes page s has issued that the
\* server has not applied yet, uuids the number of uuids drawn so far;
\* entered records the calls of addExpense and removed the ids of the
\* rules deleted at the server.
storeVars == <<ruleStore, expenseStore, session, outbox, uuids, entered,
               removed>>

vars == <<tz, today, recurringExpenses, expenses, inputRules, loopedRules,
          newExpensesToAdd, updatedRules, changedRules, calls, ticks,
          hour, forecast, storeVars>>

SafetyCeiling == 12     \* safetyCounter < 12

MaxCalls == 2           \* rollover runs explored per value of today
MaxTicks == 1           \* clock moves explored
MaxAdds == 1            \* calls of addExpense explored
MaxDeletes == 1         \* calls of deleteRecurringRule explored

\* rule.type || 'EXPENSE'
TypeOrExpense(t) == IF t = "" THEN "EXPENSE" ELSE t

\* The Expense object built in the while loop for the due date nextDate.
\* crypto.randomUUID() is modelled by a serial number that is never reused;
\* the timestamp is in hours rather than milliseconds.
NewExpense(rule, nextDate, serial) ==
  [id          |-> <<"uuid", serial>>,
   amount      |-> rule.amount,
   category    |-> rule.category,
   description |-> <<rule.description, "(Recurring)">>,
   date        |-> nextDate,
   timestamp   |-> DateParse(nextDate),
   type        |-> TypeOrExpense(rule.type)]

\* Mutant of LoopGuard: the comparison with today is strict, so an
\* occurrence dated today is not materialized.
LoopGuardStrict(nextDate, now, safetyCounter) ==
  StrLt(nextDate, now) /\ safetyCounter < SafetyCeiling

\* Mutant of LoopGuard: the counter is compared with <=.
LoopGuardInclusive(nextDate, now, safetyCounter) ==
  StrLeq(nextDate, now) /\ safetyCounter <= SafetyCeiling

\* Loop condition of the while loop.
LoopGuard(nextDate, now, safetyCounter) ==
  StrLeq(nextDate, now) /\ safetyCounter < SafetyCeiling

\* The while loop for one rule: made are the expenses pushed so far,
\* serial the number of uuids drawn before this rule.
RECURSIVE RuleLoop(_, _, _, _, _, _, _)
RuleLoop(z, rule, now, nextDate, safetyCounter, made, serial) ==
  IF LoopGuard(nextDate, now, safetyCounter)
  THEN Bind(Append(made, NewExpense(rule, nextDate,
                                    serial + safetyCounter + 1)),
            LAMBDA pushed :
       Bind(calculateNextDate(z, nextDate, rule.frequency), LAMBDA next :
         RuleLoop(z, rule, now, next, safetyCounter + 1, pushed, serial)))
  ELSE [nextDate |-> nextDate, made |-> made,
        ruleChanged |-> safetyCounter > 0]

\* Mutant of PushedRule: the rule is pushed as it was given, without the
\* nextDueDate the loop reached.
PushedRuleStale(rule, loop) == rule

\* Mutant of PushedRule: only the id and the nextDueDate are pushed, not a
\* copy of the whole rule.
PushedRuleIdOnly(rule, loop) ==
  [id |-> rule.id, nextDueDate |-> loop.nextDate]

\* updatedRules.push(...) at the end of the forEach body.
PushedRule(rule, loop) ==
  IF loop.ruleChanged THEN [rule EXCEPT !.nextDueDate = loop.nextDate]
                      ELSE rule

\* Mutant of RuleAfterLoop: the loop advances the rule object in place.
RuleAfterLoopInPlace(rule, loop) == [rule EXCEPT !.nextDueDate = loop.nextDate]

\* The rule object of the rule set after the forEach body has run for it:
\* the body assigns only its locals (nextDate, safetyCounter, ruleChanged)
\* and pushes a spread copy, so the object is as it was.
RuleAfterLoop(rule, loop) == rule

\* Mutant of ForEachRule: safetyCounter is not reset for each rule but
\* goes on from the number of instances the earlier rules made.
RECURSIVE ForEachRuleSharedCeiling(_, _, _, _, _)
ForEachRuleSharedCeiling(z, rules, now, i, acc) ==
  IF i > Len(rules) THEN acc
  ELSE Bind(rules[i], LAMBDA rule :
       Bind(Len(acc.newExpensesToAdd), LAMBDA used :
       Bind(RuleLoop(z, rule, now, rule.nextDueDate, used, <<>>,
                     acc.serial - used),
            LAMBDA loop :
       Bind([newExpensesToAdd |-> acc.newExpensesToAdd \o loop.made,
             updatedRules     |-> Append(acc.updatedRules,
                                         PushedRule(rule, loop)),
             rules            |-> Append(acc.rules, RuleAfterLoop(rule, loop)),
             hasChanges       |-> acc.hasChanges \/ loop.made # <<>>,
             serial           |-> acc.serial + Len(loop.made)],
            LAMBDA done :
              ForEachRuleSharedCeiling(z, rules, now, i + 1, done)))))

\* recurringExpenses.forEach(rule => ...): rules[i..] are still to do;
\* acc.rules are the objects of the rule set the loop has been through.
RECURSIVE ForEachRule(_, _, _, _, _)
ForEachRule(z, rules, now, i, acc) ==
  IF i > Len(rules) THEN acc
  ELSE Bind(rules[i], LAMBDA rule :
       Bind(RuleLoop(z, rule, now, rule.nextDueDate, 0, <<>>, acc.serial),
            LAMBDA loop :
       Bind([newExpensesToAdd |-> acc.newExpensesToAdd \o loop.made,
             updatedRules     |-> Append(acc.updatedRules,
                                         PushedRule(rule, loop)),
             rules            |-> Append(acc.rules, RuleAfterLoop(rule, loop)),
             hasChanges       |-> acc.hasChanges \/ loop.ruleChanged,
             serial           |-> acc.serial + Len(loop.made)],
            LAMBDA done : ForEachRule(z, rules, now, i + 1, done))))

\* The rollover computation of the effect (the spec's Advance); rules in
\* the result is the rule set it was given, as the computation leaves it.
Advance(z, rules, now, serial) ==
  ForEachRule(z, rules, now, 1,
              [newExpensesToAdd |-> <<>>, updatedRules |-> <<>>,
               rules |-> <<>>, hasChanges |-> FALSE, serial |-> serial])

\* recurringExpenses.find(or => or.id === r.id): whether a rule is found,
\* and the first one found.
HasRule(rules, id) == \E i \in 1..Len(rules) : rules[i].id = id

FindRule(rules, id) ==
  rules[CHOOSE i \in 1..Len(rules) :
          /\ rules[i].id = id
          /\ \A j \in 1..(i - 1) : rules[j].id # id]

\* Mutant of ChangedRules: every rule of updatedRules is passed on.
ChangedRulesUnfiltered(updated, original) == updated

\* updatedRules.filter(r => original && original.nextDueDate !== r.nextDueDate)
ChangedRules(updated, original) ==
  SelectSeq(updated,
            LAMBDA r : /\ HasRule(original, r.id)
                       /\ FindRule(original, r.id).nextDueDate # r.nextDueDate)

(***************************************************************************)
(* processRecurringBatch of the firebase service: one write batch that     *)
(* sets a document per new expense (keyed by its id) and updates the       *)
(* nextDueDate field of the document of each rule it is given.             *)
(***************************************************************************)

\* batch.set(ref, exp): create the document exp.id, or replace it.
SetDoc(docs, exp) ==
  IF \E i \in 1..Len(docs) : docs[i].id = exp.id
  THEN [i \in 1..Len(docs) |-> IF docs[i].id = exp.id THEN exp ELSE docs[i]]
  ELSE Append(docs, exp)

RECURSIVE SetDocs(_, _)
SetDocs(docs, exps) ==
  IF exps = <<>> THEN docs
  ELSE Bind(SetDoc(docs, Head(exps)), LAMBDA set :
       Bind(Tail(exps), LAMBDA rest : SetDocs(set, rest)))

\* batch.update(ref, {nextDueDate}): only that field of the document changes.
UpdateDoc(docs, rule) ==
  [i \in 1..Len(docs) |->
     IF docs[i].id = rule.id
     THEN [docs[i] EXCEPT !.nextDueDate = rule.nextDueDate]
     ELSE docs[i]]

RECURSIVE UpdateDocs(_, _)
UpdateDocs(docs, rules) ==
  IF rules = <<>> THEN docs
  ELSE Bind(UpdateDoc(docs, Head(rules)), LAMBDA updated :
       Bind(Tail(rules), LAMBDA rest : UpdateDocs(updated, rest)))

(***************************************************************************)
(* The forecast memo of the dashboard (Dashboard.tsx, forecast).  Amounts  *)
(* are whole numbers and a quotient is kept exact, as the pair of its      *)
(* numerator and its positive denominator; the rounding of the program's   *)
(* floating-point numbers is not modelled.                                 *)
(***************************************************************************)
BUDGET_LIMIT == 2000

Quotient(a, b) == [num |-> a, den |-> b]
Times(q, n)    == [num |-> q.num * n, den |-> q.den]
Plus(n, q)     == [num |-> n * q.den + q.num, den |-> q.den]
Greater(q, n)  == q.num > n * q.den

\* now.toISOString().slice(0, 7): year and month of the UTC date.
currentMonthPrefix(now) ==
  Bind(ToISODate(now), LAMBDA c : [y |-> c.y, m |-> c.m])

\* e.date.startsWith(currentMonthPrefix)
StartsWith(date, prefix) == date.y = prefix.y /\ date.m = prefix.m

\* new Date(now.getFullYear(), now.getMonth() + 1, 0): local midnight of
\* day 0 of the next month, the last day of the local month.
LastOfMonth(z, now) ==
  Bind(LocalFields(z, now), LAMBDA f : SetFields(z, f.y, f.mon0 + 1, 0, 0))

daysInMonth(z, now) == LocalFields(z, LastOfMonth(z, now)).d

\* now.getDate()
currentDay(z, now) == LocalFields(z, now).d

monthlyExpenses(exps, prefix) ==
  SelectSeq(exps, LAMBDA e : StartsWith(e.date, prefix) /\ e.type # "INCOME")

\* reduce((sum, e) => sum + e.amount, 0)
RECURSIVE SumAmounts(_, _, _)
SumAmounts(exps, i, sum) ==
  IF i > Len(exps) THEN sum
  ELSE Bind(sum + exps[i].amount, LAMBDA more : SumAmounts(exps, i + 1, more))

\* d.setDate(d.getDate() + 7) for a WEEKLY rule, + 1 for a DAILY rule: the
\* Date object d is stepped in local time.
SetDateLater(z, freq, d) ==
  Bind(LocalFields(z, d), LAMBDA f :
    IF freq = "WEEKLY" THEN SetFields(z, f.y, f.mon0, f.d + 7, f.h)
                       ELSE SetFields(z, f.y, f.mon0, f.d + 1, f.h))

\* The while (true) loop for a WEEKLY or DAILY rule; added is what the
\* rule has added to pendingRecurringTotal so far.
RECURSIVE PendingLoop(_, _, _, _, _)
PendingLoop(z, rule, d, endOfMonthStr, added) ==
  Bind(SetDateLater(z, rule.frequency, d), LAMBDA stepped :
    IF StrLeq(ToISODate(stepped), endOfMonthStr)
    THEN PendingLoop(z, rule, stepped, endOfMonthStr, added + rule.amount)
    ELSE added)

\* What the forEach body adds to pendingRecurringTotal for one rule.
PendingOfRule(z, rule, todayStr, endOfMonthStr) ==
  IF rule.type = "INCOME" THEN 0
  ELSE IF StrLt(todayStr, rule.nextDueDate)
          /\ StrLeq(rule.nextDueDate, endOfMonthStr)
       THEN IF rule.frequency = "WEEKLY" \/ rule.frequency = "DAILY"
            THEN PendingLoop(z, rule, DateParse(rule.nextDueDate),
                             endOfMonthStr, rule.amount)
            ELSE rule.amount
       ELSE 0

RECURSIVE PendingTotal(_, _, _, _, _, _)
PendingTotal(z, rules, todayStr, endOfMonthStr, i, sum) ==
  IF i > Len(rules) THEN sum
  ELSE Bind(sum + PendingOfRule(z, rules[i], todayStr, endOfMonthStr),
            LAMBDA more :
              PendingTotal(z, rules, todayStr, endOfMonthStr, i + 1, more))

\* Mutant of TrendingOver: a projection equal to the limit is flagged.
TrendingOverOrEqual(projectedTotal) ==
  projectedTotal.num >= BUDGET_LIMIT * projectedTotal.den

\* projectedTotal > BUDGET_LIMIT
TrendingOver(projectedTotal) == Greater(projectedTotal, BUDGET_LIMIT)

\* The memo's value before the dashboard has been rendered.
NotComputed == [computed |-> FALSE]

\* Mutant of NoResult: no result on the first day of a month either.
NoResultOnFirstDay(day) == day <= 1

\* if (currentDay === 0) return null
NoResult(day) == day = 0

\* Mutant of RulesAfterForecast: the forEach body moves a rule it counts
\* to the month's end.
RulesMovedByForecast(rules, todayStr, endOfMonthStr) ==
  [i \in 1..Len(rules) |->
     IF StrLt(todayStr, rules[i].nextDueDate)
        /\ StrLeq(rules[i].nextDueDate, endOfMonthStr)
     THEN [rules[i] EXCEPT !.nextDueDate = endOfMonthStr]
     ELSE rules[i]]

\* The rule set after the memo's forEach: the body copies rule.nextDueDate
\* into the local nextDate and steps a Date object of its own, so the rule
\* objects are as they were.
RulesAfterForecast(rules, todayStr, endOfMonthStr) == rules

\* The forecast memo for the clock at the instant now.
ComputeForecast(z, now, exps, rules) ==
  Bind(currentDay(z, now), LAMBDA day :
  Bind(daysInMonth(z, now) - day, LAMBDA daysRemaining :
  Bind(SumAmounts(monthlyExpenses(exps, currentMonthPrefix(now)), 1, 0),
       LAMBDA monthlyTotalSpent :
    IF NoResult(day) THEN [computed |-> TRUE, isNull |-> TRUE]
    ELSE
  Bind(Quotient(monthlyTotalSpent, day), LAMBDA dailyAverage :
  Bind(Plus(monthlyTotalSpent, Times(dailyAverage, daysRemaining)),
       LAMBDA projectedTotal :
    [computed              |-> TRUE,
     isNull                |-> FALSE,
     projectedTotal        |-> projectedTotal,
     trendingOver          |-> TrendingOver(projectedTotal),
     dailyAverage          |-> dailyAverage,
     daysRemaining         |-> daysRemaining,
     pendingRecurringTotal |->
       PendingTotal(z, rules, ToISODate(now),
                    ToISODate(LastOfMonth(z, now)), 1, 0)])))))

(***************************************************************************)
(* Inputs explored.  A rule's nextDueDate is any date of DueYears whose    *)
(* day of month is in DueDays; today is that date moved by one of Lags     *)
(* days (negative: the rule is not due yet).                               *)
(***************************************************************************)
DueYears  == {2023, 2024}
DueMonths == {1, 2, 3, 12}
DueDays   == {1, 15, 29, 31}
Lags      == {-1, 0, 11, 100, 400}

\* The end-to-end scenario of the specification (section 8): a rule due
\* 2024-01-15 met on 2024-04-20, 96 days later.
ScenarioDue == [y |-> 2024, m |-> 1, d |-> 15]
ScenarioLag == 96

IsLeap(y) == (y % 4 = 0 /\ y % 100 # 0) \/ y % 400 = 0

DaysInMonth(y, m) ==
  CASE m \in {4, 6, 9, 11} -> 30
    [] m = 2               -> IF IsLeap(y) THEN 29 ELSE 28
    [] OTHER               -> 31

DueDates ==
  {[y |-> yy, m |-> mm, d |-> dd] :
     yy \in DueYears, mm \in DueMonths, dd \in DueDays} \ 
  {s \in [y : DueYears, m : DueMonths, d : DueDays] :
     s.d > DaysInMonth(s.y, s.m)}

\* The date n days after the date s (n may be negative).
AddDays(s, n) ==
  Bind(DaysFromCivil(s.y, s.m, s.d) + n, LAMBDA day : CivilFromDays(day))

MakeRule(id, desc, freq, due) ==
  [id |-> id, amount |-> 10, category |-> "Bills & Utilities",
   description |-> desc, frequency |-> freq, nextDueDate |-> due,
   type |-> "EXPENSE"]

\* The rule sets explored hold the rule "rent" alone, or followed by a
\* weekly rule "gym" that fell due a week before today.
ExtraRules(now) ==
  {<<>>, <<MakeRule("r2", "gym", "WEEKLY", AddDays(now, -7))>>}

\* The pages of the user that may be open at once.
Sessions == {1, 2}

\* A page before its initialization effect has run: the service's db and
\* userId are null, the component's user is null and its rule set empty.
NoUser == "null"
ClosedPage ==
  [started |-> FALSE, db |-> FALSE, userId |-> NoUser, user |-> NoUser,
   listening |-> FALSE, recurringExpenses |-> <<>>]

\* No page is open and the store is empty.
NoPages ==
  /\ ruleStore = <<>>
  /\ expenseStore = <<>>
  /\ session = [s \in Sessions |-> ClosedPage]
  /\ outbox = [s \in Sessions |-> <<>>]
  /\ uuids = 0
  /\ entered = <<>>
  /\ removed = {}

Init ==
  /\ tz \in Zones
  /\ \E lag \in Lags \cup {ScenarioLag}, due \in DueDates,
        freq \in Frequencies :
       /\ lag = ScenarioLag => due = ScenarioDue
       /\ today = AddDays(due, lag)
       /\ \E extra \in ExtraRules(AddDays(due, lag)) :
            recurringExpenses = <<MakeRule("r1", "rent", freq, due)>> \o extra
  /\ expenses = <<>>
  /\ inputRules = <<>>
  /\ loopedRules = <<>>
  /\ newExpensesToAdd = <<>>
  /\ updatedRules = <<>>
  /\ changedRules = <<>>
  /\ calls = 0
  /\ ticks = 0
  /\ hour = 0
  /\ forecast = NotComputed
  /\ NoPages

(***************************************************************************)
(* One run of the rollover effect in a signed-in session, with the batch   *)
(* it hands to processRecurringBatch committed and the rule store's next   *)
(* snapshot delivered to the rule set before anything else happens.        *)
(***************************************************************************)
Rollover ==
  /\ calls < MaxCalls
  /\ Len(recurringExpenses) # 0
  /\ \E r \in {Advance(tz, recurringExpenses, today, Len(expenses))} :
     \E ch \in {ChangedRules(r.updatedRules, r.rules)} :
         /\ inputRules' = recurringExpenses
         /\ loopedRules' = r.rules
         /\ newExpensesToAdd' = r.newExpensesToAdd
         /\ updatedRules' = r.updatedRules
         /\ IF r.hasChanges
            THEN /\ changedRules' = ch
                 /\ expenses' = SetDocs(expenses, r.newExpensesToAdd)
                 /\ recurringExpenses' = UpdateDocs(recurringExpenses, ch)
            ELSE /\ changedRules' = <<>>
                 /\ UNCHANGED <<expenses, recurringExpenses>>
  /\ calls' = calls + 1
  /\ UNCHANGED <<tz, today, ticks, hour, forecast, storeVars>>

\* Midnight UTC passes: today becomes the next day.
Tick ==
  /\ ticks < MaxTicks
  /\ today' = AddDays(today, 1)
  /\ ticks' = ticks + 1
  /\ calls' = 0
  /\ UNCHANGED <<tz, recurringExpenses, expenses, inputRules, loopedRules,
                 newExpensesToAdd, updatedRules, changedRules, hour, forecast,
                 storeVars>>

Next == Rollover \/ Tick

Spec == Init /\ [][Next]_vars

(***************************************************************************)
(* The dashboard's forecast.  The clock, the transaction store and the     *)
(* rule set are drawn from the inputs below and the dashboard is rendered, *)
(* which computes the memo.                                                *)
(***************************************************************************)
April(d) == [y |-> 2024, m |-> 4, d |-> d]

ForecastDays  == {April(8), April(10), April(30)}
ForecastHours == {2, 12, 23}
ForecastDues  == {April(5), April(9), April(11), April(30),
                  [y |-> 2024, m |-> 5, d |-> 2]}

\* An Expense document of the store.
MakeExpense(serial, amount, date, type) ==
  [id |-> <<"uuid", serial>>, amount |-> amount, category |-> "Food & Dining",
   description |-> <<"item", serial>>, date |-> date,
   timestamp |-> DateParse(date), type |-> type]

\* The transaction stores explored: empty; 300 spent in April next to an
\* income and a purchase of March; 700 spent; 2000 spent.
ExpenseLists ==
  {<<>>,
   <<MakeExpense(1, 100, April(1), "EXPENSE"),
     MakeExpense(2, 200, April(5), "EXPENSE"),
     MakeExpense(3, 5000, April(3), "INCOME"),
     MakeExpense(4, 999, [y |-> 2024, m |-> 3, d |-> 28], "EXPENSE")>>,
   <<MakeExpense(1, 700, April(2), "EXPENSE")>>,
   <<MakeExpense(1, 2000, April(1), "EXPENSE")>>}

\* The rule sets explored: one rule of either type, any frequency and a
\* due date of ForecastDues, alone or followed by a monthly bill of 25 due
\* on April 15; and no rule at all.
ForecastRuleSets ==
  {<<[MakeRule("r1", "rent", freq, due) EXCEPT !.type = ty]>> \o extra :
     freq \in Frequencies, due \in ForecastDues, ty \in {"EXPENSE", "INCOME"},
     extra \in {<<>>, <<[MakeRule("r2", "phone", "MONTHLY", April(15))
                           EXCEPT !.amount = 25]>>}}
  \cup {<<>>}

\* The instant of the clock.
Now == DateParse(today) + hour

InitForecast ==
  /\ tz \in Zones
  /\ today \in ForecastDays
  /\ hour \in ForecastHours
  /\ expenses \in ExpenseLists
  /\ recurringExpenses \in ForecastRuleSets
  /\ forecast = NotComputed
  /\ inputRules = <<>>
  /\ loopedRules = <<>>
  /\ newExpensesToAdd = <<>>
  /\ updatedRules = <<>>
  /\ changedRules = <<>>
  /\ calls = 0
  /\ ticks = 0
  /\ NoPages

\* The dashboard is rendered: useMemo computes the forecast.  The memo
\* reads its two inputs and calls nothing of the store.
Render ==
  /\ forecast = NotComputed
  /\ forecast' = ComputeForecast(tz, Now, expenses, recurringExpenses)
  /\ recurringExpenses' =
       RulesAfterForecast(recurringExpenses, ToISODate(Now),
                          ToISODate(LastOfMonth(tz, Now)))
  /\ UNCHANGED <<tz, today, hour, expenses, inputRules,
                 loopedRules, newExpensesToAdd, updatedRules, changedRules,
                 calls, ticks, storeVars>>

NextForecast == Render

SpecForecast == InitForecast /\ [][NextForecast]_vars

(***************************************************************************)
(* Vocabulary of the properties.                                           *)
(***************************************************************************)

\* The last step was a rollover run, so inputRules, newExpensesToAdd and
\* updatedRules are the input and the output of a run made at today (a
\* clock move resets calls).
RanRollover == calls >= 1

\* The instances a run made for a rule: rollover marks an instance with the
\* rule's description (rule descriptions are distinct in the rule sets
\* explored).
InstancesOf(exps, rule) ==
  SelectSeq(exps, LAMBDA e : e.description = <<rule.description, "(Recurring)">>)

DateSet(exps) == {exps[k].date : k \in 1..Len(exps)}

\* The date that followed the k-th instance of a run for rule i: the next
\* instance's date, or the nextDueDate the run returned.
Successor(i, k) ==
  LET made == InstancesOf(newExpensesToAdd, inputRules[i])
  IN  IF k < Len(made) THEN made[k + 1].date ELSE updatedRules[i].nextDueDate

\* step of the specification (section 4.1): one period later, a month or a
\* year later keeping the day of month, clamped to the month's last day.
ClampDay(y, m, d) ==
  [y |-> y, m |-> m, d |-> IF d > DaysInMonth(y, m) THEN DaysInMonth(y, m) ELSE d]

SpecStep(date, freq) ==
  CASE freq = "DAILY"   -> AddDays(date, 1)
    [] freq = "WEEKLY"  -> AddDays(date, 7)
    [] freq = "MONTHLY" -> IF date.m = 12 THEN ClampDay(date.y + 1, 1, date.d)
                           ELSE ClampDay(date.y, date.m + 1, date.d)
    [] freq = "YEARLY"  -> ClampDay(date.y + 1, date.m, date.d)
    [] OTHER            -> date

\* The periodic occurrences date, step(date), ... that are <= now, at most n.
RECURSIVE Occurrences(_, _, _, _)
Occurrences(date, freq, now, n) ==
  IF n = 0 \/ ~StrLeq(date, now) THEN <<>>
  ELSE Bind(SpecStep(date, freq), LAMBDA next :
         <<date>> \o Occurrences(next, freq, now, n - 1))

\* What a run is to materialize for a rule: nothing for a ONCE rule.
ExpectedDates(rule, now) ==
  IF rule.frequency = "ONCE" THEN <<>>
  ELSE Occurrences(rule.nextDueDate, rule.frequency, now, SafetyCeiling)

(***************************************************************************)
(* C1 (as claimed).  Idempotence of rollover: a second run made right      *)
(* after a run, with the first run's result applied and today unchanged,   *)
(* materializes no instance and returns every rule unchanged.              *)
(***************************************************************************)
C1_SecondRunIsNoOp ==
  calls >= 2 => newExpensesToAdd = <<>> /\ updatedRules = inputRules

(***************************************************************************)
(* C1 (amended).  For every rule for which a run materialized fewer than   *)
(* 12 instances, a second run made right after it, with the first run's    *)
(* result applied and today unchanged, materializes no instance and        *)
(* returns the rule unchanged.                                             *)
(***************************************************************************)
C1_SecondRunIsNoOpBelowCeiling ==
  [][(calls >= 1 /\ calls' = calls + 1) =>
       \A i \in 1..Len(recurringExpenses) :
         Len(InstancesOf(newExpensesToAdd, recurringExpenses[i])) < SafetyCeiling
           => /\ InstancesOf(newExpensesToAdd', recurringExpenses[i]) = <<>>
              /\ updatedRules'[i] = recurringExpenses[i]
              /\ recurringExpenses'[i] = recurringExpenses[i]]_vars

\* A second run has followed a run that materialized 1 to 11 instances.
C1_Witness ==
  /\ calls = 2 /\ ticks = 0
  /\ Len(expenses) \in 1..(SafetyCeiling - 1)
  /\ newExpensesToAdd = <<>>
  /\ updatedRules = inputRules

(***************************************************************************)
(* C2.  No gaps, no duplicates within one run: the dates of the instances  *)
(* a run materializes for a rule are exactly the periodic occurrences      *)
(* nextDueDate, step(nextDueDate), ... that are <= today, each once, cut   *)
(* to the first 12.                                                        *)
(***************************************************************************)
C2_NoGapsNoDuplicates ==
  RanRollover =>
    \A i \in 1..Len(inputRules) :
      LET made   == InstancesOf(newExpensesToAdd, inputRules[i])
          wanted == ExpectedDates(inputRules[i], today)
      IN  /\ DateSet(made) = {wanted[k] : k \in 1..Len(wanted)}
          /\ Len(made) = Len(wanted)

(***************************************************************************)
(* C3.  Across runs with non-decreasing today, each run's result applied   *)
(* before the next, the expense store never holds two instances of the     *)
(* same rule for the same due date.                                        *)
(***************************************************************************)
C3_AtMostOneInstancePerRuleAndDate ==
  \A j, k \in 1..Len(expenses) :
    j < k => ~(/\ expenses[j].description = expenses[k].description
               /\ expenses[j].date = expenses[k].date)

(***************************************************************************)
(* C4.  A ONCE rule is a no-op for rollover: whatever its nextDueDate, a   *)
(* run materializes no instance for it and returns it unchanged.           *)
(***************************************************************************)
C4_OnceIsNoOp ==
  RanRollover =>
    \A i \in 1..Len(inputRules) :
      inputRules[i].frequency = "ONCE"
        => /\ InstancesOf(newExpensesToAdd, inputRules[i]) = <<>>
           /\ updatedRules[i] = inputRules[i]

(***************************************************************************)
(* C5.  Bounded catch-up: a run materializes at most 12 instances per      *)
(* rule, and for a DAILY rule whose nextDueDate is 100 days before today   *)
(* exactly 12, returning a nextDueDate exactly 12 days after the original. *)
(***************************************************************************)
C5_BoundedCatchUp ==
  RanRollover =>
    \A i \in 1..Len(inputRules) :
      LET made == InstancesOf(newExpensesToAdd, inputRules[i])
      IN  /\ Len(made) <= SafetyCeiling
          /\ (/\ inputRules[i].frequency = "DAILY"
              /\ today = AddDays(inputRules[i].nextDueDate, 100))
             => /\ Len(made) = SafetyCeiling
                /\ updatedRules[i].nextDueDate =
                     AddDays(inputRules[i].nextDueDate, SafetyCeiling)

(***************************************************************************)
(* C6.  MONTHLY step clamps to the end of the month: the date that follows *)
(* an instance dated the 29th, 30th or 31st, when the next month is        *)
(* shorter than that day, is the next month's last day.                    *)
(***************************************************************************)
C6_MonthlyClampsToMonthEnd ==
  RanRollover =>
    \A i \in 1..Len(inputRules) :
      inputRules[i].frequency = "MONTHLY" =>
        LET made == InstancesOf(newExpensesToAdd, inputRules[i])
        IN  \A k \in 1..Len(made) :
              LET from == made[k].date
                  ny   == IF from.m = 12 THEN from.y + 1 ELSE from.y
                  nm   == IF from.m = 12 THEN 1 ELSE from.m + 1
              IN  from.d > DaysInMonth(ny, nm)
                    => Successor(i, k) =
                         [y |-> ny, m |-> nm, d |-> DaysInMonth(ny, nm)]

(***************************************************************************)
(* C7.  YEARLY step clamps Feb 29: the date that follows an instance dated *)
(* Feb 29 is Feb 28 of the next year, and the date that follows any other  *)
(* instance is the same month and day one year later.                      *)
(***************************************************************************)
C7_YearlyClampsFeb29 ==
  RanRollover =>
    \A i \in 1..Len(inputRules) :
      inputRules[i].frequency = "YEARLY" =>
        LET made == InstancesOf(newExpensesToAdd, inputRules[i])
        IN  \A k \in 1..Len(made) :
              LET from == made[k].date
              IN  Successor(i, k) =
                    IF from.m = 2 /\ from.d = 29
                    THEN [y |-> from.y + 1, m |-> 2, d |-> 28]
                    ELSE [y |-> from.y + 1, m |-> from.m, d |-> from.d]

(***************************************************************************)
(* C8 (as claimed).  Post-rollover invariant: when a run returns, no rule  *)
(* of the returned rule set has nextDueDate <= today.                      *)
(***************************************************************************)
C8_NoRuleDueAfterRollover ==
  RanRollover =>
    \A i \in 1..Len(updatedRules) : StrLt(today, updatedRules[i].nextDueDate)

(***************************************************************************)
(* C8 (amended).  When a run returns, every rule for which the run         *)
(* materialized fewer than 12 instances has nextDueDate > today.           *)
(***************************************************************************)
C8_NoRuleDueBelowCeiling ==
  RanRollover =>
    \A i \in 1..Len(updatedRules) :
      Len(InstancesOf(newExpensesToAdd, inputRules[i])) < SafetyCeiling
        => StrLt(today, updatedRules[i].nextDueDate)

\* A run has caught a rule up with 1 to 11 instances, the last one dated
\* today, and returned it with a later nextDueDate.
C8_Witness ==
  /\ RanRollover
  /\ \E i \in 1..Len(updatedRules) :
       LET made == InstancesOf(newExpensesToAdd, inputRules[i])
       IN  /\ Len(made) \in 1..(SafetyCeiling - 1)
           /\ made[Len(made)].date = today
           /\ StrLt(today, updatedRules[i].nextDueDate)

(***************************************************************************)
(* C9.  Eventual convergence at a fixed today.  A run is a function of the *)
(* rule and today, so repeated runs converge exactly when no run returns a *)
(* rule that is still due with the nextDueDate it was given; a run resumes *)
(* at the rule's nextDueDate, and a rule whose nextDueDate is after today  *)
(* gets no instance.                                                       *)
(***************************************************************************)
C9_ConvergesAtFixedToday ==
  RanRollover =>
    \A i \in 1..Len(inputRules) :
      LET made == InstancesOf(newExpensesToAdd, inputRules[i])
      IN  /\ StrLeq(updatedRules[i].nextDueDate, today)
               => StrLt(inputRules[i].nextDueDate, updatedRules[i].nextDueDate)
          /\ made # <<>> => made[1].date = inputRules[i].nextDueDate
          /\ StrLt(today, inputRules[i].nextDueDate) => made = <<>>

(***************************************************************************)
(* C10.  Strict progress of the schedule pointer: the nextDueDate a run    *)
(* returns for a rule is strictly later than the date of every instance    *)
(* the run materialized for it, and is never earlier than the nextDueDate  *)
(* the run was given.                                                      *)
(***************************************************************************)
C10_StrictProgress ==
  RanRollover =>
    \A i \in 1..Len(inputRules) :
      LET made == InstancesOf(newExpensesToAdd, inputRules[i])
      IN  /\ \A k \in 1..Len(made) :
               StrLt(made[k].date, updatedRules[i].nextDueDate)
          /\ StrLeq(inputRules[i].nextDueDate, updatedRules[i].nextDueDate)
          /\ recurringExpenses[i].nextDueDate = updatedRules[i].nextDueDate

\* The dates of a sequence of instances, in order.
DatesOf(exps) == [k \in 1..Len(exps) |-> exps[k].date]

\* Instances without their ids: a uuid is drawn afresh for each, so two
\* computations are compared up to the ids.
Unkeyed(exps) == [k \in 1..Len(exps) |-> [exps[k] EXCEPT !.id = "uuid"]]

\* What a run at now makes of the one rule alone.
Alone(rule, now) == Advance(tz, <<rule>>, now, 0)

RECURSIVE ConcatAlone(_, _, _)
ConcatAlone(rules, now, i) ==
  IF i > Len(rules) THEN <<>>
  ELSE Unkeyed(Alone(rules[i], now).newExpensesToAdd)
         \o ConcatAlone(rules, now, i + 1)

\* Position in the rule set of the rule an instance was made for.
RuleIndex(rules, exp) ==
  CHOOSE i \in 1..Len(rules) :
    exp.description = <<rules[i].description, "(Recurring)">>

(***************************************************************************)
(* C11.  End-to-end scenario: a run at today = 2024-04-20 for a MONTHLY    *)
(* rule with nextDueDate 2024-01-15 materializes exactly the four          *)
(* instances dated 2024-01-15, 2024-02-15, 2024-03-15, 2024-04-15 and      *)
(* returns nextDueDate 2024-05-15; and in general a rule whose nextDueDate *)
(* is today gets an instance dated today (the loop condition is <=).       *)
(***************************************************************************)
C11_EndToEndScenario ==
  RanRollover =>
    \A i \in 1..Len(inputRules) :
      LET made == InstancesOf(newExpensesToAdd, inputRules[i])
      IN  /\ (/\ inputRules[i].frequency = "MONTHLY"
              /\ inputRules[i].nextDueDate = ScenarioDue
              /\ today = [y |-> 2024, m |-> 4, d |-> 20])
             => /\ DatesOf(made) = <<[y |-> 2024, m |-> 1, d |-> 15],
                                     [y |-> 2024, m |-> 2, d |-> 15],
                                     [y |-> 2024, m |-> 3, d |-> 15],
                                     [y |-> 2024, m |-> 4, d |-> 15]>>
                /\ updatedRules[i].nextDueDate = [y |-> 2024, m |-> 5, d |-> 15]
          /\ inputRules[i].nextDueDate = today
             => made # <<>> /\ made[1].date = today

(***************************************************************************)
(* C12.  Rules are processed independently: what a run makes of a rule set *)
(* is, up to the fresh ids, the in-order concatenation of what it makes of *)
(* each rule alone, and the rule it returns for each is the rule it        *)
(* returns for it alone; the 12-iteration ceiling counts per rule.         *)
(***************************************************************************)
C12_RulesIndependent ==
  RanRollover =>
    /\ Unkeyed(newExpensesToAdd) = ConcatAlone(inputRules, today, 1)
    /\ Len(updatedRules) = Len(inputRules)
    /\ \A i \in 1..Len(inputRules) :
         updatedRules[i] = Alone(inputRules[i], today).updatedRules[1]

\* A run over two rules has made 12 instances for the first and more for
\* the second.
C12_Witness ==
  /\ RanRollover
  /\ Len(inputRules) = 2
  /\ Len(InstancesOf(newExpensesToAdd, inputRules[1])) = SafetyCeiling
  /\ InstancesOf(newExpensesToAdd, inputRules[2]) # <<>>
  /\ Len(newExpensesToAdd) > SafetyCeiling

(***************************************************************************)
(* C13.  A run returns exactly one rule per rule of its input, in the      *)
(* input's order, and a rule for which it materialized no instance is      *)
(* returned identical to the input rule.                                   *)
(***************************************************************************)
C13_OneRulePerInputRule ==
  RanRollover =>
    /\ Len(updatedRules) = Len(inputRules)
    /\ \A i \in 1..Len(inputRules) :
         /\ updatedRules[i].id = inputRules[i].id
         /\ InstancesOf(newExpensesToAdd, inputRules[i]) = <<>>
              => updatedRules[i] = inputRules[i]

\* A run over two rules has materialized nothing for the first, which is
\* not due, and something for the second.
C13_Witness ==
  /\ RanRollover
  /\ Len(inputRules) = 2
  /\ StrLt(today, inputRules[1].nextDueDate)
  /\ InstancesOf(newExpensesToAdd, inputRules[1]) = <<>>
  /\ InstancesOf(newExpensesToAdd, inputRules[2]) # <<>>
  /\ updatedRules[1] = inputRules[1]
  /\ updatedRules[2] # inputRules[2]

(***************************************************************************)
(* C14.  Order of the instances a run returns: by position of their rule   *)
(* in the rule set, and for one rule by strictly increasing date.          *)
(***************************************************************************)
C14_InstanceOrder ==
  RanRollover =>
    \A j, k \in 1..Len(newExpensesToAdd) :
      j < k =>
        LET rj == RuleIndex(inputRules, newExpensesToAdd[j])
            rk == RuleIndex(inputRules, newExpensesToAdd[k])
        IN  /\ rj <= rk
            /\ rj = rk => StrLt(newExpensesToAdd[j].date,
                                newExpensesToAdd[k].date)

(***************************************************************************)
(* C15.  The rollover computation does not change the rule set it is       *)
(* given: when it is done, every rule object of the input has the          *)
(* nextDueDate and the other fields it had.                                *)
(***************************************************************************)
C15_InputNotMutated ==
  RanRollover => loopedRules = inputRules

\* A run has returned a rule with a later nextDueDate than the input
\* rule's, and the input is as it was.
C15_Witness ==
  /\ RanRollover
  /\ \E i \in 1..Len(inputRules) :
       StrLt(inputRules[i].nextDueDate, updatedRules[i].nextDueDate)
  /\ loopedRules = inputRules

(***************************************************************************)
(* Vocabulary of the forecast properties.  today is the calendar date of   *)
(* the clock, the date the program writes as todayStr.                     *)
(***************************************************************************)

\* The dashboard has been rendered and the memo holds a result.
HasForecast == forecast.computed /\ ~forecast.isNull

\* monthExpenses of the specification (section 4.2): the EXPENSE instances
\* dated within today's calendar month.
SpecMonthExpenses ==
  SelectSeq(expenses, LAMBDA e : /\ e.type = "EXPENSE"
                                 /\ e.date.y = today.y
                                 /\ e.date.m = today.m)

\* The last day of today's month.
SpecMonthEnd ==
  [y |-> today.y, m |-> today.m, d |-> DaysInMonth(today.y, today.m)]

\* The quotient q is a / b.
IsRatio(q, a, b) == q.num * b = a * q.den

\* Number of the occurrences date, step(date), ... that are strictly after
\* today and on or before the last day of today's month; a ONCE rule has
\* the one occurrence.
RECURSIVE PendingOccurrences(_, _)
PendingOccurrences(date, freq) ==
  IF ~StrLeq(date, SpecMonthEnd) THEN 0
  ELSE (IF StrLt(today, date) THEN 1 ELSE 0)
       + (IF freq = "ONCE" THEN 0
          ELSE Bind(SpecStep(date, freq), LAMBDA next :
                 PendingOccurrences(next, freq)))

RECURSIVE SpecPendingTotal(_, _)
SpecPendingTotal(rules, i) ==
  IF i > Len(rules) THEN 0
  ELSE (IF rules[i].type = "EXPENSE"
        THEN rules[i].amount *
               PendingOccurrences(rules[i].nextDueDate, rules[i].frequency)
        ELSE 0)
       + SpecPendingTotal(rules, i + 1)

\* The rule set without its i-th rule, and the forecast for it.
WithoutRule(rules, i) ==
  SubSeq(rules, 1, i - 1) \o SubSeq(rules, i + 1, Len(rules))

ForecastWithout(i) ==
  ComputeForecast(tz, Now, expenses, WithoutRule(recurringExpenses, i))

\* What the i-th rule adds to the forecast's pendingRecurringTotal.
PendingShare(i) ==
  forecast.pendingRecurringTotal - ForecastWithout(i).pendingRecurringTotal

\* The i-th rule is an EXPENSE rule due strictly after today and within
\* today's month.
DueLaterThisMonth(i) ==
  /\ recurringExpenses[i].type = "EXPENSE"
  /\ StrLt(today, recurringExpenses[i].nextDueDate)
  /\ StrLeq(recurringExpenses[i].nextDueDate, SpecMonthEnd)

(***************************************************************************)
(* C16.  Forecast arithmetic: dailyAverage is the sum of the month's       *)
(* expenses divided by today's day of month, daysRemaining is the number   *)
(* of days of today's month minus today's day of month, and the projected  *)
(* total is the sum plus dailyAverage times daysRemaining; 300 spent by    *)
(* day 10 of a 30-day month gives 30, 20 and 900.                          *)
(***************************************************************************)
C16_ForecastArithmetic ==
  HasForecast =>
    LET sum  == SumAmounts(SpecMonthExpenses, 1, 0)
        left == DaysInMonth(today.y, today.m) - today.d
    IN  /\ IsRatio(forecast.dailyAverage, sum, today.d)
        /\ forecast.daysRemaining = left
        /\ IsRatio(forecast.projectedTotal,
                   sum * today.d + sum * left, today.d)
        /\ (sum = 300 /\ today = April(10))
           => /\ IsRatio(forecast.dailyAverage, 30, 1)
              /\ forecast.daysRemaining = 20
              /\ IsRatio(forecast.projectedTotal, 900, 1)

(***************************************************************************)
(* C17.  pendingRecurringTotal is the sum, over the EXPENSE rules, of the  *)
(* amount times the number of the rule's occurrences (nextDueDate, then    *)
(* step by step) dated strictly after today and on or before the last day  *)
(* of today's month, whatever the frequency and whether nextDueDate is     *)
(* before, on or after today; INCOME rules add nothing.                    *)
(***************************************************************************)
C17_PendingRecurringTotal ==
  HasForecast =>
    forecast.pendingRecurringTotal = SpecPendingTotal(recurringExpenses, 1)

(***************************************************************************)
(* C18.  An EXPENSE rule due strictly after today and within today's month *)
(* adds its amount once per occurrence up to and including the month's     *)
(* last day if it is WEEKLY or DAILY (a WEEKLY rule due tomorrow, April 9, *)
(* with three more occurrences by April 30 adds four times its amount),    *)
(* and exactly once if it is MONTHLY or YEARLY.                            *)
(***************************************************************************)
C18_OccurrencesPerMonth ==
  HasForecast =>
    \A i \in 1..Len(recurringExpenses) :
      LET rule == recurringExpenses[i]
          gap  == SpecMonthEnd.d - rule.nextDueDate.d
      IN  DueLaterThisMonth(i) =>
            /\ rule.frequency = "WEEKLY"
                 => PendingShare(i) = rule.amount * (gap \div 7 + 1)
            /\ rule.frequency = "DAILY"
                 => PendingShare(i) = rule.amount * (gap + 1)
            /\ rule.frequency \in {"MONTHLY", "YEARLY"}
                 => PendingShare(i) = rule.amount
            /\ (/\ rule.frequency = "WEEKLY"
                /\ today = April(8)
                /\ rule.nextDueDate = April(9))
               => PendingShare(i) = rule.amount * 4

(***************************************************************************)
(* C19.  The projected month-end total includes the recurring amounts      *)
(* still due this month: the forecast differs from the forecast for the    *)
(* same expenses, clock and rule set without one EXPENSE rule that is due  *)
(* later this month by what that rule adds to pendingRecurringTotal, in    *)
(* its projected total too.                                                *)
(***************************************************************************)
C19_ProjectionIncludesPending ==
  HasForecast =>
    \A i \in 1..Len(recurringExpenses) :
      (DueLaterThisMonth(i) /\ PendingShare(i) > 0) =>
        LET sum == Plus(PendingShare(i), ForecastWithout(i).projectedTotal)
        IN  IsRatio(forecast.projectedTotal, sum.num, sum.den)

(***************************************************************************)
(* C20.  The trend flag is set exactly when the projected total is         *)
(* strictly greater than the budget limit: a projection equal to the limit *)
(* is not flagged.                                                         *)
(***************************************************************************)
C20_TrendFlag ==
  HasForecast =>
    (forecast.trendingOver <=>
       forecast.projectedTotal.num > BUDGET_LIMIT * forecast.projectedTotal.den)

\* A forecast whose projected total is exactly the budget limit, not
\* flagged.
C20_Witness ==
  /\ HasForecast
  /\ forecast.projectedTotal.num = BUDGET_LIMIT * forecast.projectedTotal.den
  /\ ~forecast.trendingOver

(***************************************************************************)
(* C21.  The forecast is advisory only: rendering it leaves the expense    *)
(* list and every rule, its nextDueDate in particular, as they were, and   *)
(* hands nothing to the store (no rollover result is produced).            *)
(***************************************************************************)
C21_ForecastChangesNothing ==
  [][forecast' # forecast =>
       /\ expenses' = expenses
       /\ recurringExpenses' = recurringExpenses
       /\ newExpensesToAdd' = newExpensesToAdd
       /\ changedRules' = changedRules
       /\ calls' = calls]_vars

\* A forecast has been computed that counts a pending rule, next to
\* expenses of the month.
C21_Witness ==
  /\ HasForecast
  /\ forecast.pendingRecurringTotal > 0
  /\ SpecMonthExpenses # <<>>
  /\ \E i \in 1..Len(recurringExpenses) : DueLaterThisMonth(i)

(***************************************************************************)
(* C22.  The forecast returns a result for every date, expense list and    *)
(* rule set, the empty ones included: it returns none only when the day of *)
(* the month is 0, which no date has.                                      *)
(***************************************************************************)
C22_AlwaysAResult ==
  forecast.computed => ~forecast.isNull

\* A result for an empty store and an empty rule set, on the first day of
\* the local month.
C22_Witness ==
  /\ HasForecast
  /\ expenses = <<>>
  /\ recurringExpenses = <<>>
  /\ currentDay(tz, Now) = 1

\* What the dashboard's pending loop adds for rule i of the rule store, at
\* the state's clock.
PendingNow(i) ==
  PendingOfRule(tz, recurringExpenses[i], ToISODate(Now),
                ToISODate(LastOfMonth(tz, Now)))

(***************************************************************************)
(* C23.  Both loops end for every input: the rollover loop after at most  *)
(* 12 iterations per rule, whatever the frequency (ONCE included), and the *)
(* pending loop of the forecast once the stepped date is past the month's  *)
(* end, which is after fewer steps than a month has days.                  *)
(***************************************************************************)
C23_LoopsTerminate ==
  RanRollover =>
    \A i \in 1..Len(inputRules) :
      /\ Len(InstancesOf(newExpensesToAdd, inputRules[i])) <= SafetyCeiling
      /\ PendingNow(i) <= 31 * recurringExpenses[i].amount

\* A rollover has made 12 instances of a ONCE rule, and the pending loop
\* has stepped a stored rule at least twice.
C23_Witness ==
  /\ RanRollover
  /\ \E i \in 1..Len(inputRules) :
       /\ inputRules[i].frequency = "ONCE"
       /\ Len(InstancesOf(newExpensesToAdd, inputRules[i])) = SafetyCeiling
  /\ \E j \in 1..Len(recurringExpenses) :
       /\ recurringExpenses[j].frequency \in {"DAILY", "WEEKLY"}
       /\ PendingNow(j) >= 3 * recurringExpenses[j].amount

(***************************************************************************)
(* The pages and the store.  A page runs its initialization effect, which  *)
(* calls initFirebase and attaches the listeners; the rule listener's      *)
(* callback sets recurringExpenses, on which the rollover effect runs and  *)
(* hands its batch to processRecurringBatch; addExpense and                *)
(* deleteRecurringRule issue their writes.  A write reaches the server     *)
(* later, in the order its page issued it; a page's listener shows the     *)
(* server's rules with the page's own unapplied writes laid over them.     *)
(***************************************************************************)
Uid == "uid"

\* What initFirebase finds: whether window.__firebase_config and
\* window.__initial_auth_token are set, whether signInWithCustomToken
\* succeeds, and auth.currentUser.
Environments ==
  [config : BOOLEAN, token : BOOLEAN, signIn : BOOLEAN,
   currentUser : {NoUser, Uid}]

\* initFirebase: the service's db and userId after the call, and the user
\* it returns.
initFirebase(env) ==
  IF ~env.config THEN [db |-> FALSE, userId |-> NoUser, user |-> NoUser]
  ELSE IF env.token
       THEN IF env.signIn
            THEN [db |-> TRUE, userId |-> Uid, user |-> Uid]
            ELSE [db |-> TRUE, userId |-> NoUser, user |-> NoUser]
       ELSE [db |-> TRUE, userId |-> NoUser, user |-> env.currentUser]

\* if (!db || !userId) return: the guard of every operation of the service.
Ready(page) == page.db /\ page.userId # NoUser

\* The writes a page issues.  from is the rule set a batch was computed
\* from.
SetExpenseWrite(exp) ==
  [op |-> "setExpense", expenses |-> <<exp>>, rules |-> <<>>, from |-> <<>>]

SetRuleWrite(rule) ==
  [op |-> "setRule", expenses |-> <<>>, rules |-> <<rule>>, from |-> <<>>]

DeleteRuleWrite(rule) ==
  [op |-> "deleteRule", expenses |-> <<>>, rules |-> <<rule>>, from |-> <<>>]

BatchWrite(exps, rules, from) ==
  [op |-> "batch", expenses |-> exps, rules |-> rules, from |-> from]

\* deleteDoc
DeleteDoc(docs, id) == SelectSeq(docs, LAMBDA d : d.id # id)

\* batch.update fails for a document that does not exist, and the batch
\* with it.
BatchApplies(docs, w) ==
  \A i \in 1..Len(w.rules) : HasRule(docs, w.rules[i].id)

\* Mutant of RulesAfterWrite: the batch sets the rule documents it is
\* given, which creates the ones that do not exist.
RulesAfterWriteBySet(docs, w) ==
  IF w.op = "setRule" THEN SetDoc(docs, w.rules[1])
  ELSE IF w.op = "deleteRule" THEN DeleteDoc(docs, w.rules[1].id)
  ELSE IF w.op = "batch" THEN SetDocs(docs, w.rules)
  ELSE docs

\* The rule collection after a write is applied to it.
RulesAfterWrite(docs, w) ==
  IF w.op = "setRule" THEN SetDoc(docs, w.rules[1])
  ELSE IF w.op = "deleteRule" THEN DeleteDoc(docs, w.rules[1].id)
  ELSE IF w.op = "batch" /\ BatchApplies(docs, w)
       THEN UpdateDocs(docs, w.rules)
  ELSE docs

\* The expense collection after a write is applied; rules is the rule
\* collection the write meets.
ExpensesAfterWrite(docs, rules, w) ==
  IF w.op = "setExpense" THEN SetDoc(docs, w.expenses[1])
  ELSE IF w.op = "batch" /\ BatchApplies(rules, w)
       THEN SetDocs(docs, w.expenses)
  ELSE docs

\* What the rule listener of a page shows: the server's rule collection
\* with the page's unapplied writes laid over it.
RECURSIVE LocalRules(_, _)
LocalRules(docs, writes) ==
  IF writes = <<>> THEN docs
  ELSE Bind(RulesAfterWrite(docs, Head(writes)), LAMBDA after :
         LocalRules(after, Tail(writes)))

\* The initialization effect of page s: initFirebase, setUser, and the
\* subscriptions effect, which returns at once without a user; of the
\* listeners, subscribeToRecurring attaches one only when Ready.
Start(s) ==
  /\ ~session[s].started
  /\ \E env \in Environments :
       \E r \in {initFirebase(env)} :
         session' = [session EXCEPT ![s] =
           [started |-> TRUE, db |-> r.db, userId |-> r.userId,
            user |-> r.user,
            listening |-> r.user # NoUser /\ r.db /\ r.userId # NoUser,
            recurringExpenses |-> <<>>]]
  /\ UNCHANGED <<tz, today, recurringExpenses, expenses, inputRules,
                 loopedRules, newExpensesToAdd, updatedRules, changedRules,
                 calls, ticks, hour, forecast, ruleStore, expenseStore,
                 outbox, uuids, entered, removed>>

\* The rule listener of page s delivers a snapshot that differs from the
\* page's rule set: setRecurringExpenses, then the rollover effect, which
\* hands its result to processRecurringBatch without waiting for it.
DeliverRules(s) ==
  /\ session[s].listening
  /\ \E view \in {LocalRules(ruleStore, outbox[s])} :
       /\ view # session[s].recurringExpenses
       /\ session' = [session EXCEPT ![s].recurringExpenses = view]
       /\ IF Len(view) = 0 \/ session[s].user = NoUser
          THEN UNCHANGED <<outbox, uuids>>
          ELSE \E r \in {Advance(tz, view, today, uuids)} :
                 IF r.hasChanges /\ Ready(session[s])
                 THEN /\ outbox' = [outbox EXCEPT ![s] =
                           Append(@, BatchWrite(r.newExpensesToAdd,
                                    ChangedRules(r.updatedRules, view),
                                    view))]
                      /\ uuids' = uuids + Len(r.newExpensesToAdd)
                 ELSE UNCHANGED <<outbox, uuids>>
  /\ UNCHANGED <<tz, today, recurringExpenses, expenses, inputRules,
                 loopedRules, newExpensesToAdd, updatedRules, changedRules,
                 calls, ticks, hour, forecast, ruleStore, expenseStore,
                 entered, removed>>

\* The server applies the oldest unapplied write of page s: a setDoc, a
\* deleteDoc, or a batch, whose sets and updates are applied together or
\* not at all.
Commit(s) ==
  /\ outbox[s] # <<>>
  /\ \E w \in {Head(outbox[s])} :
       /\ ruleStore' = RulesAfterWrite(ruleStore, w)
       /\ expenseStore' = ExpensesAfterWrite(expenseStore, ruleStore, w)
       /\ removed' = IF w.op = "deleteRule" /\ HasRule(ruleStore, w.rules[1].id)
                     THEN removed \cup {w.rules[1].id}
                     ELSE removed
  /\ outbox' = [outbox EXCEPT ![s] = Tail(@)]
  /\ UNCHANGED <<tz, today, recurringExpenses, expenses, inputRules,
                 loopedRules, newExpensesToAdd, updatedRules, changedRules,
                 calls, ticks, hour, forecast, session, uuids, entered>>

\* The entries the user may submit in the form: one dated today, with any
\* frequency, or a weekly or monthly one dated fourteen weeks ago.
Entries ==
  {[date |-> [y |-> 2024, m |-> 3, d |-> 31], frequency |-> f] :
     f \in Frequencies}
  \cup {[date |-> [y |-> 2023, m |-> 12, d |-> 25], frequency |-> f] :
          f \in {"WEEKLY", "MONTHLY"}}

\* if (frequency !== Frequency.ONCE) addRecurringToDb(newRule)
RuleOfEntry(z, data, frequency, id) ==
  IF frequency # "ONCE"
  THEN <<SetRuleWrite([id |-> id, amount |-> data.amount,
                       category |-> data.category,
                       description |-> data.description,
                       frequency |-> frequency,
                       nextDueDate |->
                         calculateNextDate(z, data.date, frequency),
                       type |-> TypeOrExpense(data.type)])>>
  ELSE <<>>

\* addExpense on page s: addExpenseToDb(newExpense), then addRecurringToDb
\* of the new rule unless the frequency is ONCE; each is a write of its
\* own, and a no-op unless Ready.
addExpense(s) ==
  /\ session[s].started
  /\ Len(entered) < MaxAdds
  /\ \E entry \in Entries :
       \E frequency \in {entry.frequency},
          data \in {[amount |-> 10, category |-> "Bills & Utilities",
                     description |-> <<"rent", "no.", Len(entered) + 1>>,
                     date |-> entry.date,
                     type |-> ""]} :
         /\ entered' = Append(entered,
              [session |-> s, date |-> data.date, frequency |-> frequency,
               description |-> data.description,
               expense |-> <<"uuid", uuids + 1>>,
               rule |-> <<"uuid", uuids + 2>>,
               writes |-> IF Ready(session[s])
                          THEN 1 + Len(RuleOfEntry(tz, data, frequency, 0))
                          ELSE 0])
         /\ outbox' = [outbox EXCEPT ![s] =
              IF Ready(session[s])
              THEN @ \o <<SetExpenseWrite(
                            [id |-> <<"uuid", uuids + 1>>,
                             amount |-> data.amount,
                             category |-> data.category,
                             description |-> data.description,
                             date |-> data.date,
                             timestamp |-> Now,
                             type |-> TypeOrExpense(data.type)])>>
                     \o RuleOfEntry(tz, data, frequency,
                                    <<"uuid", uuids + 2>>)
              ELSE @]
  /\ uuids' = uuids + 2
  /\ UNCHANGED <<tz, today, recurringExpenses, expenses, inputRules,
                 loopedRules, newExpensesToAdd, updatedRules, changedRules,
                 calls, ticks, hour, forecast, ruleStore, expenseStore,
                 session, removed>>

\* deleteRecurringRule on page s, for a rule the page shows, confirmed in
\* the dialog: deleteRecurringFromDb(id).
deleteRecurringRule(s) ==
  /\ Cardinality(removed) + Len(SelectSeq(outbox[1] \o outbox[2],
                                  LAMBDA w : w.op = "deleteRule")) < MaxDeletes
  /\ Ready(session[s])
  /\ \E i \in 1..Len(session[s].recurringExpenses) :
       outbox' = [outbox EXCEPT ![s] =
                    Append(@, DeleteRuleWrite(session[s].recurringExpenses[i]))]
  /\ UNCHANGED <<tz, today, recurringExpenses, expenses, inputRules,
                 loopedRules, newExpensesToAdd, updatedRules, changedRules,
                 calls, ticks, hour, forecast, ruleStore, expenseStore,
                 session, uuids, entered, removed>>

\* The clock reads the evening of 2024-03-31 (UTC), the day on which
\* summer time begins in Berlin; no page is open and the store is empty.
InitSession ==
  /\ tz \in Zones
  /\ today = [y |-> 2024, m |-> 3, d |-> 31]
  /\ hour = 20
  /\ recurringExpenses = <<>>
  /\ expenses = <<>>
  /\ forecast = NotComputed
  /\ inputRules = <<>>
  /\ loopedRules = <<>>
  /\ newExpensesToAdd = <<>>
  /\ updatedRules = <<>>
  /\ changedRules = <<>>
  /\ calls = 0
  /\ ticks = 0
  /\ NoPages

NextSession ==
  \E s \in Sessions :
    \/ Start(s)
    \/ DeliverRules(s)
    \/ Commit(s)
    \/ addExpense(s)
    \/ deleteRecurringRule(s)

SpecSession == InitSession /\ [][NextSession]_vars

\* A listener's callback that is due is run, and a write a page has issued
\* reaches the server; nothing makes the user act or open a page.
SpecSessionFair ==
  /\ SpecSession
  /\ \A s \in Sessions : WF_vars(DeliverRules(s)) /\ WF_vars(Commit(s))

\* The calls of addExpense that created the rule with the given id.
EntriesOf(id) == {k \in 1..Len(entered) : entered[k].rule = id}

\* The occurrences of the rule entry k asked for that have fallen due: one
\* period after the entered date, and so on up to today.
DueOccurrences(k) ==
  Bind(Occurrences(SpecStep(entered[k].date, entered[k].frequency),
                   entered[k].frequency, today, 20),
       LAMBDA dates : {dates[n] : n \in 1..Len(dates)})

(***************************************************************************)
(* C24.  A rollover result is applied atomically, so the store never holds *)
(* an instance of a rule whose nextDueDate is not past that instance's     *)
(* date, nor a rule whose nextDueDate is past an occurrence that has no    *)
(* instance.  Stated for the zones without summer time, where no step of   *)
(* calculateNextDate returns its argument.                                 *)
(***************************************************************************)
C24_StoreConsistent ==
  ~tz.dst =>
  \A i \in 1..Len(ruleStore) :
    LET rule == ruleStore[i]
        made == InstancesOf(expenseStore, rule)
    IN  /\ \A k \in 1..Len(made) : StrLt(made[k].date, rule.nextDueDate)
        /\ \A k \in EntriesOf(rule.id) :
             \A date \in DueOccurrences(k) :
               StrLt(date, rule.nextDueDate) => date \in DateSet(made)

\* The expenses of the store that rollover made: their description ends in
\* "(Recurring)".
IsInstance(e) == Len(e.description) = 2 /\ e.description[2] = "(Recurring)"

(***************************************************************************)
(* C25.  No duplicate materialization, however the runs of the rollover    *)
(* effect, the deliveries of rule snapshots and the commits of batches     *)
(* interleave, in one page or two: the expense store never holds two       *)
(* instances of the same rule with the same date.  Stated for the zones    *)
(* without summer time, where one run makes no two instances of a date.    *)
(***************************************************************************)
C25_NoDuplicateInstances ==
  ~tz.dst =>
    \A i, j \in 1..Len(expenseStore) :
      (/\ i # j
       /\ IsInstance(expenseStore[i])
       /\ expenseStore[i].description = expenseStore[j].description)
      => expenseStore[i].date # expenseStore[j].date

\* The batches that have been issued and not yet applied.
BatchesInFlight ==
  {w \in UNION {{outbox[s][n] : n \in 1..Len(outbox[s])} : s \in Sessions} :
     w.op = "batch"}

\* Every write has been applied and every listener has delivered the rule
\* collection as it is: no callback and no effect is left to run.
Settled ==
  \A s \in Sessions :
    /\ outbox[s] = <<>>
    /\ session[s].listening => session[s].recurringExpenses = ruleStore

\* A batch is issued only from a rule set in which a rule is due, and it
\* carries only rules of that set whose nextDueDate the run changed.
BatchesAreMinimal ==
  \A w \in BatchesInFlight :
    /\ \E i \in 1..Len(w.from) : StrLeq(w.from[i].nextDueDate, today)
    /\ \A j \in 1..Len(w.rules) :
         /\ HasRule(w.from, w.rules[j].id)
         /\ FindRule(w.from, w.rules[j].id).nextDueDate
              # w.rules[j].nextDueDate

(***************************************************************************)
(* C26.  The reactive rollover loop quiesces: with today fixed, the cycle  *)
(* of rule snapshot, effect and batch commit reaches a state after which   *)
(* the effect calls processRecurringBatch no more; the effect issues no    *)
(* batch when no rule is due, and a batch carries only the rules whose     *)
(* nextDueDate changed.                                                    *)
(***************************************************************************)
C26_Quiesces ==
  /\ []BatchesAreMinimal
  /\ <>[]Settled

\* The loop has come to rest after it materialized more than one batch of
\* a rule: the store holds at least 14 expenses and a rule that is no
\* longer due.
C26_Witness ==
  /\ Settled
  /\ Len(expenseStore) >= 14
  /\ \E i \in 1..Len(ruleStore) : StrLt(today, ruleStore[i].nextDueDate)
  /\ \E s \in Sessions : session[s].listening

\* The writes of a page that set a rule document.
RuleWrites ==
  {w \in UNION {{outbox[s][n] : n \in 1..Len(outbox[s])} : s \in Sessions} :
     w.op = "setRule"}

\* Every rule there is: stored, shown by a page, or on its way to the store.
AllRules ==
  {ruleStore[i] : i \in 1..Len(ruleStore)}
  \cup UNION {{session[s].recurringExpenses[i] :
                 i \in 1..Len(session[s].recurringExpenses)} : s \in Sessions}
  \cup {w.rules[1] : w \in RuleWrites}

(***************************************************************************)
(* C27.  Rule creation by addExpense: a ONCE entry creates no rule, so no  *)
(* ONCE rule exists; any other entry is written once and creates exactly   *)
(* one rule, whose nextDueDate is one period after the entered date and    *)
(* strictly later than it, so that rollover never makes an instance dated  *)
(* the entered date.                                                       *)
(***************************************************************************)
C27_RuleCreation ==
  /\ \A rule \in AllRules : rule.frequency # "ONCE"
  /\ \A k \in 1..Len(entered) :
       LET e == entered[k]
       IN  /\ e.writes > 0 =>
                e.writes = IF e.frequency = "ONCE" THEN 1 ELSE 2
           /\ Cardinality({i \in 1..Len(expenseStore) :
                             expenseStore[i].id = e.expense}) <= 1
           /\ \A w \in RuleWrites :
                w.rules[1].id = e.rule =>
                  /\ w.rules[1].nextDueDate = SpecStep(e.date, e.frequency)
                  /\ StrLt(e.date, w.rules[1].nextDueDate)
           /\ \A i \in 1..Len(expenseStore) :
                expenseStore[i].description = <<e.description, "(Recurring)">>
                  => expenseStore[i].date # e.date

\* Two rule objects that differ in nextDueDate at most.
SameButDue(a, b) == [a EXCEPT !.nextDueDate = b.nextDueDate] = b

\* The step in which the server applies a batch of page s.
AppliesBatch(s) ==
  /\ outbox[s] # <<>>
  /\ Head(outbox[s]).op = "batch"
  /\ outbox'[s] = Tail(outbox[s])

\* Every rule a batch carries is a rule of the set the run was given, with
\* no field but nextDueDate changed.
BatchRulesKeepFields ==
  \A w \in BatchesInFlight :
    \A j \in 1..Len(w.rules) :
      /\ HasRule(w.from, w.rules[j].id)
      /\ SameButDue(w.rules[j], FindRule(w.from, w.rules[j].id))

(***************************************************************************)
(* C28.  Rollover changes only the schedule pointer: the rules a run hands *)
(* on keep their id, amount, category, description, frequency and type,    *)
(* and applying its batch writes only the nextDueDate of rule documents:   *)
(* it creates no rule document and deletes none.                           *)
(***************************************************************************)
C28_OnlyNextDueDate ==
  /\ []BatchRulesKeepFields
  /\ [][\A s \in Sessions :
          AppliesBatch(s) =>
            /\ Len(ruleStore') = Len(ruleStore)
            /\ \A i \in 1..Len(ruleStore) :
                 SameButDue(ruleStore'[i], ruleStore[i])]_vars

\* A batch has been applied that moved a stored weekly rule past today and
\* added its instances.
C28_Witness ==
  /\ \E i \in 1..Len(ruleStore) : StrLt(today, ruleStore[i].nextDueDate)
  /\ \E i \in 1..Len(expenseStore) : IsInstance(expenseStore[i])
  /\ \E k \in 1..Len(entered) : entered[k].frequency = "WEEKLY"

\* The number of instances the store holds of the rule that entry k
\* created.
StoredInstances(store, k) ==
  Cardinality({i \in 1..Len(store) :
                 store[i].description = <<entered[k].description, "(Recurring)">>})

(***************************************************************************)
(* C29.  Deletion stops materialization: once a rule has been deleted from *)
(* the rule store, no instance of it is added to the expense store and the *)
(* rule is not created again, even when a batch computed from a snapshot   *)
(* that still held the rule is applied after the deletion.                 *)
(***************************************************************************)
C29_DeletionStopsMaterialization ==
  [][\A k \in 1..Len(entered) :
       entered[k].rule \in removed =>
         /\ StoredInstances(expenseStore', k) = StoredInstances(expenseStore, k)
         /\ ~HasRule(ruleStore', entered[k].rule)]_vars

(***************************************************************************)
(* C30.  Session state consistency: whenever initFirebase has returned a   *)
(* user to a page, the service's userId is set, so the page's listeners    *)
(* are attached and its store operations take effect; they are no-ops only *)
(* while the page has no user.                                             *)
(***************************************************************************)
C30_UserImpliesUserId ==
  \A s \in Sessions :
    session[s].user # NoUser =>
      /\ session[s].userId # NoUser
      /\ session[s].listening
      /\ \A k \in 1..Len(entered) :
           entered[k].session = s => entered[k].writes > 0

====
